---- MODULE Spec2Model ----
(***************************************************************************)
(* Model of scripts/pair/svm.py: the script that walks the runtime pivot   *)
(* tables, labels every (A, B) pair with the contention class, gathers the *)
(* per-pair feature matrices into one data frame X and the labels into one *)
(* series Y, and writes X with the column Y as a CSV file.                 *)
(*                                                                         *)
(* Normalized runtimes are kept in hundredths (1.15 is 115).  A data frame *)
(* is a sequence of rows, a row a record with its pandas index label `ix`  *)
(* and its content; a series is a sequence of [ix, val] records.           *)
(***************************************************************************)
EXTENDS Integers, Sequences, FiniteSets, TLC

\* ------------------------------------------------------------- bounds
\* A feature-matrix file holds 0..MaxRows rows.
MaxRows == 2

\* ------------------------------------------------------------ settings
\* Variant: the second configuration of the settings line is built too.
TO_BUILD_both == <<"L3-SMT", "L3-SMT-cores">>
TO_BUILD == <<"L3-SMT">>
CLASSIFIER_CUTOFF == 115

\* -------------------------------------------------------------- inputs
\* The value pandas fills in where a label is missing.
NoLabel == "NaN"

\* The shapes of the pivot tables get_runtime_pivot_tables yields: one entry
\* per configuration, with its row index and its columns in table order.
Table(config, index, columns) ==
    [config |-> config, index |-> index, columns |-> columns]

Layouts ==
    { << Table("L3-SMT-cores", <<"wA">>, <<"wA">>),
         Table("L3-SMT", <<"wA">>, <<"wB", "wA">>) >>,
      << Table("L3-SMT", <<"wA", "wB">>, <<"wA">>),
         Table("L3-SMT-cores", <<"wA">>, <<"wB">>) >>,
      << Table("L3-SMT", <<"wC">>, <<"wA", "wC", "wB">>) >> }

\* A table of two rows and two columns, and a run with no table to build.
SquareLayouts ==
    { << Table("L3-SMT", <<"wB", "wA">>, <<"wA", "wB">>) >>,
      << Table("L3-SMT-cores", <<"wB">>, <<"wB">>) >> }

\* The boundary value 1.15 and the next value above it.
Runtimes == {CLASSIFIER_CUTOFF, CLASSIFIER_CUTOFF + 1}
\* Values on both sides of the cutoff.
WideRuntimes == {CLASSIFIER_CUTOFF - 1, CLASSIFIER_CUTOFF,
                 CLASSIFIER_CUTOFF + 1, 2 * CLASSIFIER_CUTOFF}

\* A pair directory: whether the `completed` marker exists, whether the
\* feature-matrix file exists, and the number of rows the file holds.
DirStates ==
    { d \in [completed : BOOLEAN, matrix : BOOLEAN, nrows : 0..MaxRows] :
        ~d.matrix => d.nrows = 0 }

VARIABLES
    pivots,   \* what get_runtime_pivot_tables yields, in order
    dirs,     \* the pair directories under the results root
    outfile,  \* the output file under the results root
    pc,       \* "loop", "write", "exit0", "exit1"
    t, r, c,  \* position of the loops: table, row, column (1-based)
    X, Y,     \* the accumulators
    stdout,   \* what was printed
    writes,   \* calls of to_csv in this execution
    visited,  \* the pair directories the loop body ran for, in order
    run,      \* "first" or "second" execution over the same inputs
    before,   \* the output file as this execution found it
    first     \* how the first execution ended, once a second has started

vars == <<pivots, dirs, outfile, pc, t, r, c, X, Y, stdout, writes, visited,
          run, before, first>>

\* ----------------------------------------------------- the file system
\* os.path.join(sys.argv[1], config, "{}_vs_{}".format(A, B))
results_path(config, A, B) == <<config, A, "_vs_", B>>

\* Every pair directory a table of the layout names.
PathsOf(layout) ==
    UNION { { results_path(layout[i].config, layout[i].index[a],
                           layout[i].columns[b]) :
                a \in 1..Len(layout[i].index),
                b \in 1..Len(layout[i].columns) } :
            i \in 1..Len(layout) }

\* The pivot tables of a layout whose cell (A, B) holds cell[path of (A, B)]:
\* values[a][b] is the entry of row a at position b.
PivotsOf(layout, cell) ==
    [i \in 1..Len(layout) |->
        [config  |-> layout[i].config,
         index   |-> layout[i].index,
         columns |-> layout[i].columns,
         values  |-> [a \in 1..Len(layout[i].index) |->
                        [b \in 1..Len(layout[i].columns) |->
                            cell[results_path(layout[i].config,
                                              layout[i].index[a],
                                              layout[i].columns[b])]]]]]

\* Variant: the test looks for the matrix file instead of the marker.
completed_exists_matrix(path) == dirs[path].matrix

\* os.path.exists(os.path.join(results_path, 'completed'))
completed_exists(path) == dirs[path].completed

\* os.path.exists(matrix_file)
matrix_exists(path) == dirs[path].matrix

\* ------------------------------------------------------------- pandas
\* The index pandas gives n rows read from a file or built from a list.
RangeIndex(n) == [i \in 1..n |-> i - 1]

\* pd.DataFrame(): no index, no columns.
EmptyFrame == [index |-> <<>>, columns |-> <<>>, data |-> <<>>, Y |-> <<>>]

\* pd.Series(): no entries.
EmptySeries == [index |-> <<>>, values |-> <<>>]

\* Row k of the feature-matrix file of a pair: its feature columns.
FeatureRow(path, k) == [src |-> path, k |-> k]

\* The row pandas fills in for an index label that has no data.
NoData == [src |-> <<>>, k |-> 0]

\* pd.read_csv(matrix_file, index_col=False)
read_csv(path) ==
    [index   |-> RangeIndex(dirs[path].nrows),
     columns |-> <<"features">>,
     data    |-> [k \in 1..dirs[path].nrows |-> FeatureRow(path, k)],
     Y       |-> <<>>]

\* df.shape[0]
shape0(df) == Len(df.index)

\* Variant: range(1, n), one label short.
LabelSeries_short(classification, n) ==
    [index |-> RangeIndex(IF n = 0 THEN 0 ELSE n - 1),
     values |-> [k \in 1..(n - 1) |-> classification]]

\* pd.Series([classification for _ in range(0, n)])
LabelSeries(classification, n) ==
    [index |-> RangeIndex(n), values |-> [k \in 1..n |-> classification]]

\* Variant: pd.concat([Y, s], ignore_index=True), the labels renumbered.
concat_series_ignore_index(a, b) ==
    [index |-> RangeIndex(Len(a.values) + Len(b.values)),
     values |-> a.values \o b.values]

\* pd.concat([Y, s]) of two series: the entries and their labels, in order.
concat_series(a, b) ==
    [index |-> a.index \o b.index, values |-> a.values \o b.values]

\* The columns of two frames, each once, in order of first appearance.
UnionColumns(a, b) == a \o SelectSeq(b, LAMBDA x : \A i \in 1..Len(a) : a[i] # x)

\* Variant: pd.concat([X, df], ignore_index=True), the rows renumbered.
concat_frames_ignore_index(a, b) ==
    [index   |-> RangeIndex(Len(a.index) + Len(b.index)),
     columns |-> UnionColumns(a.columns, b.columns),
     data    |-> a.data \o b.data,
     Y       |-> <<>>]

\* Variant: pd.concat([df, X]), the new rows in front.
concat_frames_front(a, b) ==
    [index   |-> b.index \o a.index,
     columns |-> UnionColumns(a.columns, b.columns),
     data    |-> b.data \o a.data,
     Y       |-> <<>>]

\* pd.concat([X, df]) of two frames without a column Y.
concat_frames(a, b) ==
    [index   |-> a.index \o b.index,
     columns |-> UnionColumns(a.columns, b.columns),
     data    |-> a.data \o b.data,
     Y       |-> <<>>]

HasDuplicates(index) ==
    \E i, j \in 1..Len(index) : i # j /\ index[i] = index[j]

\* The value a series holds at an index label that occurs once, NaN at a
\* label that does not occur.
AtLabel(series, label) ==
    IF \E i \in 1..Len(series.index) : series.index[i] = label
    THEN series.values[CHOOSE i \in 1..Len(series.index) : series.index[i] = label]
    ELSE NoLabel

\* Whether X[name] = series raises: a series whose index differs from the
\* frame's is reindexed, which pandas refuses for an index with duplicates.
setitem_raises(frame, series) ==
    /\ Len(frame.index) # 0
    /\ series.index # frame.index
    /\ HasDuplicates(series.index)

\* X['Y'] = series.  Equal indexes: the values are taken as they stand.  A
\* frame with no index takes the index of the series.  Otherwise the series
\* is aligned to the frame's index by label.
setitem_Y(frame, series) ==
    IF Len(frame.index) = 0
    THEN [index   |-> series.index,
          columns |-> UnionColumns(frame.columns, <<"Y">>),
          data    |-> [i \in 1..Len(series.index) |-> NoData],
          Y       |-> series.values]
    ELSE [index   |-> frame.index,
          columns |-> UnionColumns(frame.columns, <<"Y">>),
          data    |-> frame.data,
          Y       |-> IF series.index = frame.index
                      THEN series.values
                      ELSE [i \in 1..Len(frame.index) |->
                               AtLabel(series, frame.index[i])]]

\* Variant: to_csv(..., mode='a'), the rows added to the file as it is.
to_csv_append(frame) ==
    [exists |-> TRUE,
     header |-> IF outfile.exists THEN outfile.header ELSE frame.columns,
     rows   |-> outfile.rows \o
                [i \in 1..Len(frame.index) |->
                   [features |-> frame.data[i],
                    Y |-> IF i <= Len(frame.Y) THEN frame.Y[i] ELSE NoLabel]]]

\* The lines X.to_csv(path, index=False) writes: the header, then per row
\* the feature columns and the column Y when the frame has one.
to_csv(frame) ==
    [exists |-> TRUE,
     header |-> frame.columns,
     rows   |-> [i \in 1..Len(frame.index) |->
                   [features |-> frame.data[i],
                    Y |-> IF i <= Len(frame.Y) THEN frame.Y[i] ELSE NoLabel]]]

NoOutput == [exists |-> FALSE, header |-> <<>>, rows |-> <<>>]

\* An output file left by an earlier use of the results root.
StaleOutput ==
    [exists |-> TRUE, header |-> <<"features", "Y">>,
     rows |-> << [features |-> FeatureRow(<<"stale">>, 1), Y |-> "N"] >>]

\* ------------------------------------------------------------ the script
\* Variant: >= in place of >.
classify_ge(normalized_runtime) ==
    IF normalized_runtime >= CLASSIFIER_CUTOFF THEN "Y" ELSE "N"

\* 'Y' if normalized_runtime > CLASSIFIER_CUTOFF else 'N'
classify(normalized_runtime) ==
    IF normalized_runtime > CLASSIFIER_CUTOFF THEN "Y" ELSE "N"

\* config in TO_BUILD
Selected(config) == \E i \in 1..Len(TO_BUILD) : TO_BUILD[i] = config

\* Messages on standard output.
Msg(text, path, shape) == [text |-> text, path |-> path, shape |-> shape]
ExcludeMsg(path) == Msg("Exclude unfinished directory", path, <<>>)
NoMatrixMsg ==
    Msg("No matrix file found, run the scripts/pair/matrix.py script first!",
        <<>>, <<>>)
ShapeMsg(frame) == Msg("shape", <<>>, <<Len(frame.index), Len(frame.columns)>>)

\* The state at the start of an execution: X = pd.DataFrame(), Y = pd.Series(),
\* and the loops before the first table.
Start ==
    /\ pc' = "loop"
    /\ t' = 1 /\ r' = 1 /\ c' = 1
    /\ X' = EmptyFrame
    /\ Y' = EmptySeries
    /\ stdout' = <<>>
    /\ writes' = 0
    /\ visited' = <<>>

InitWith(layouts, runtimes, outputs) ==
    \E layout \in layouts :
      \E normalized \in [PathsOf(layout) -> runtimes] :
        /\ pivots = PivotsOf(layout, normalized)
        /\ dirs \in [PathsOf(layout) -> DirStates]
        /\ outfile \in outputs
        /\ before = outfile
        /\ pc = "loop"
        /\ t = 1 /\ r = 1 /\ c = 1
        /\ X = EmptyFrame
        /\ Y = EmptySeries
        /\ stdout = <<>>
        /\ writes = 0
        /\ visited = <<>>
        /\ run = "first"
        /\ first = [pc |-> "none", outfile |-> NoOutput, stdout |-> <<>>]

Init == InitWith(Layouts, Runtimes, {NoOutput, StaleOutput})

\* The cell the loops stand at.
InTable == pc = "loop" /\ t <= Len(pivots)
table == pivots[t]
A == table.index[r]
B == table.columns[c]
normalized_runtime == table.values[r][c]
classification == classify(normalized_runtime)
path == results_path(table.config, A, B)

\* Variant: the loops step down the column first.
Advance_column_major ==
    IF r < Len(pivots[t].index)
    THEN t' = t /\ r' = r + 1 /\ c' = c
    ELSE IF c < Len(pivots[t].columns)
         THEN t' = t /\ r' = 1 /\ c' = c + 1
         ELSE t' = t + 1 /\ r' = 1 /\ c' = 1

\* The loops step to the next column, then the next row, then the next table.
Advance ==
    IF c < Len(table.columns)
    THEN t' = t /\ r' = r /\ c' = c + 1
    ELSE IF r < Len(table.index)
         THEN t' = t /\ r' = r + 1 /\ c' = 1
         ELSE t' = t + 1 /\ r' = 1 /\ c' = 1

\* `if config in TO_BUILD` fails: the table is passed over.
SkipConfig ==
    /\ InTable
    /\ ~Selected(table.config)
    /\ t' = t + 1 /\ r' = 1 /\ c' = 1
    /\ UNCHANGED <<pivots, dirs, outfile, pc, X, Y, stdout, writes, visited,
                   run, before, first>>

\* A pair whose directory holds no `completed` marker.
Exclude ==
    /\ InTable
    /\ Selected(table.config)
    /\ ~completed_exists(path)
    /\ stdout' = Append(stdout, ExcludeMsg(path))
    /\ visited' = Append(visited, path)
    /\ Advance
    /\ UNCHANGED <<pivots, dirs, outfile, pc, X, Y, writes, run, before, first>>

\* Variant: the missing matrix file is reported and the pair passed over.
Abort_continue ==
    /\ InTable
    /\ Selected(table.config)
    /\ completed_exists(path)
    /\ ~matrix_exists(path)
    /\ stdout' = Append(stdout, NoMatrixMsg)
    /\ visited' = Append(visited, path)
    /\ Advance
    /\ UNCHANGED <<pivots, dirs, outfile, pc, X, Y, writes, run, before, first>>

\* A completed pair without its matrix file: sys.exit(1).
Abort ==
    /\ InTable
    /\ Selected(table.config)
    /\ completed_exists(path)
    /\ ~matrix_exists(path)
    /\ stdout' = Append(stdout, NoMatrixMsg)
    /\ visited' = Append(visited, path)
    /\ pc' = "exit1"
    /\ UNCHANGED <<pivots, dirs, outfile, t, r, c, X, Y, writes, run, before,
                   first>>

\* A completed pair with its matrix file: its rows and as many labels.
Include ==
    /\ InTable
    /\ Selected(table.config)
    /\ completed_exists(path)
    /\ matrix_exists(path)
    /\ LET df == read_csv(path)
       IN /\ Y' = concat_series(Y, LabelSeries(classification, shape0(df)))
          /\ X' = concat_frames(X, df)
    /\ visited' = Append(visited, path)
    /\ Advance
    /\ UNCHANGED <<pivots, dirs, outfile, pc, stdout, writes, run, before,
                   first>>

\* X['Y'] = Y after the last table; an exception ends the process.
AssignY ==
    /\ pc = "loop"
    /\ t > Len(pivots)
    /\ IF setitem_raises(X, Y)
       THEN pc' = "exit1" /\ X' = X
       ELSE pc' = "write" /\ X' = setitem_Y(X, Y)
    /\ UNCHANGED <<pivots, dirs, outfile, t, r, c, Y, stdout, writes, visited,
                   run, before, first>>

\* print X.shape; X.to_csv(..., index=False); the script ends.
WriteCsv ==
    /\ pc = "write"
    /\ stdout' = Append(stdout, ShapeMsg(X))
    /\ outfile' = to_csv(X)
    /\ writes' = writes + 1
    /\ pc' = "exit0"
    /\ UNCHANGED <<pivots, dirs, t, r, c, X, Y, visited, run, before, first>>

Next ==
    \/ SkipConfig
    \/ Exclude
    \/ Abort
    \/ Include
    \/ AssignY
    \/ WriteCsv

Spec == Init /\ [][Next]_vars

\* The script is run a second time over the same results root.
Rerun ==
    /\ pc \in {"exit0", "exit1"}
    /\ run = "first"
    /\ run' = "second"
    /\ first' = [pc |-> pc, outfile |-> outfile, stdout |-> stdout]
    /\ before' = outfile
    /\ Start
    /\ UNCHANGED <<pivots, dirs, outfile>>

NextTwice == Next \/ Rerun

SpecTwice ==
    InitWith(Layouts, Runtimes, {NoOutput, StaleOutput}) /\ [][NextTwice]_vars

\* Runs over runtimes on both sides of the cutoff.
SpecWide == InitWith(Layouts, WideRuntimes, {NoOutput}) /\ [][Next]_vars

\* Runs over a table of two rows and two columns.
SpecSquare == InitWith(SquareLayouts, Runtimes, {NoOutput}) /\ [][Next]_vars

\* ------------------------------------------------------------ properties
IsPrefix(a, b) == Len(a) <= Len(b) /\ SubSeq(b, 1, Len(a)) = a

Exited == pc \in {"exit0", "exit1"}

\* The one configuration the script builds.
IsL3SMT(config) == config = "L3-SMT"

\* The pair directories of a table, row by row and within a row column by
\* column.
RowMajor(tab) ==
    [k \in 1..(Len(tab.index) * Len(tab.columns)) |->
        results_path(tab.config,
                     tab.index[((k - 1) \div Len(tab.columns)) + 1],
                     tab.columns[((k - 1) % Len(tab.columns)) + 1])]

\* The cells of the L3-SMT tables among the first n tables, in that order.
RECURSIVE CellsUpTo(_)
CellsUpTo(n) ==
    IF n = 0 THEN <<>>
    ELSE CellsUpTo(n - 1) \o
         (IF IsL3SMT(pivots[n].config) THEN RowMajor(pivots[n]) ELSE <<>>)

VisitOrder == CellsUpTo(Len(pivots))

\* A pair that is to contribute: marker and matrix file both present.
IsIncluded(p) == dirs[p].completed /\ dirs[p].matrix

\* A completed pair of an L3-SMT table without its matrix file.
MissingMatrix(p) == dirs[p].completed /\ ~dirs[p].matrix
HasMissingMatrix ==
    \E k \in 1..Len(VisitOrder) : MissingMatrix(VisitOrder[k])

\* The rows of the files of the included pairs among the first n of cells.
RECURSIVE RowsOf(_, _)
RowsOf(cells, n) ==
    IF n = 0 THEN <<>>
    ELSE RowsOf(cells, n - 1) \o
         (IF IsIncluded(cells[n])
          THEN [k \in 1..dirs[cells[n]].nrows |-> FeatureRow(cells[n], k)]
          ELSE <<>>)

\* The number of those rows.
RECURSIVE RowCount(_, _)
RowCount(cells, n) ==
    IF n = 0 THEN 0
    ELSE RowCount(cells, n - 1) +
         (IF IsIncluded(cells[n]) THEN dirs[cells[n]].nrows ELSE 0)

\* The normalized runtime in the pivot cell of a pair directory.
CellValue(p) ==
    LET at == CHOOSE x \in { <<i, a, b>> \in
                                (1..Len(pivots)) \X (1..3) \X (1..3) :
                                /\ a <= Len(pivots[i].index)
                                /\ b <= Len(pivots[i].columns)
                                /\ results_path(pivots[i].config,
                                                pivots[i].index[a],
                                                pivots[i].columns[b]) = p } :
                     TRUE
    IN pivots[at[1]].values[at[2]][at[3]]

\* C1: in a run over a results root where some completed pair of a selected
\* configuration lacks its matrix file, the output file is never written
\* (it stays as the run found it, absent or not), the run does not reach
\* normal completion, and it does not stop anywhere but at exit status 1.
C1_AbortBeforeWrite ==
    HasMissingMatrix =>
        /\ writes = 0
        /\ outfile = before
        /\ pc \in {"loop", "exit1"}
        /\ (pc = "loop" => ENABLED Next)

\* C1 witness: the run has stopped with status 1 after rows of earlier
\* pairs were accumulated, and an output file that existed is still there.
C1_Witness ==
    /\ pc = "exit1"
    /\ Len(X.index) > 0
    /\ before = StaleOutput
    /\ outfile = StaleOutput

\* C2 (state): no row of the combined matrix comes from a pair directory
\* without the `completed` marker, and the run never stops with status 1 at
\* such a pair.
C2_State ==
    /\ \A i \in 1..Len(X.data) :
          X.data[i].src \in DOMAIN dirs => dirs[X.data[i].src].completed
    /\ (pc = "exit1" /\ Len(visited) > 0
          => dirs[visited[Len(visited)]].completed)

\* C2 (step): the loop body at a pair without the marker leaves the matrix
\* and the label series as they are, whether or not the pair has a matrix
\* file, prints the exclusion, and goes on.
C2_Step ==
    (InTable /\ IsL3SMT(table.config) /\ ~dirs[path].completed) =>
        /\ X' = X
        /\ Y' = Y
        /\ pc' = "loop"
        /\ outfile' = outfile
        /\ stdout' = Append(stdout, ExcludeMsg(path))

\* C2: a pair directory lacking the `completed` marker contributes no row
\* and no label, with or without a matrix file; it is logged as excluded
\* and never aborts the run.
C2_UnfinishedExcluded == []C2_State /\ [][C2_Step]_vars

\* C2 witness: the run completed normally after excluding a pair whose
\* matrix file exists and holds rows, and after including another pair.
C2_Witness ==
    /\ pc = "exit0"
    /\ Len(X.index) > 0
    /\ \E i \in 1..Len(stdout) :
          /\ stdout[i].text = "Exclude unfinished directory"
          /\ dirs[stdout[i].path].matrix
          /\ dirs[stdout[i].path].nrows > 0

\* C3: at every pivot cell the label is "Y" exactly when the normalized
\* runtime is above 1.15 (115 hundredths) and "N" otherwise, 1.15 included.
C3_LabelIffAboveCutoff ==
    (InTable /\ Selected(table.config)) =>
        /\ (classification = "Y") <=> (normalized_runtime > 115)
        /\ (classification = "N") <=> (normalized_runtime <= 115)

\* C3 witness: the written output holds a row of a pair whose runtime is
\* exactly 1.15, labelled "N", and a row of a pair above it, labelled "Y".
C3_Witness ==
    /\ pc = "exit0"
    /\ \E i, j \in 1..Len(outfile.rows) :
          /\ CellValue(outfile.rows[i].features.src) = 115
          /\ outfile.rows[i].Y = "N"
          /\ CellValue(outfile.rows[j].features.src) = 116
          /\ outfile.rows[j].Y = "Y"

\* C4: on normal completion the combined matrix has as many rows as the
\* matrix files of the included pairs hold together, the label series has
\* as many entries, and so has the written file.
C4_RowCount ==
    pc \in {"write", "exit0"} =>
        /\ Len(X.index) = RowCount(VisitOrder, Len(VisitOrder))
        /\ Len(X.data) = RowCount(VisitOrder, Len(VisitOrder))
        /\ Len(Y.values) = RowCount(VisitOrder, Len(VisitOrder))
        /\ (pc = "exit0" =>
              Len(outfile.rows) = RowCount(VisitOrder, Len(VisitOrder)))

\* C4 witness: normal completion with two included pairs of different row
\* counts and an excluded pair whose file holds rows.
C4_Witness ==
    /\ pc = "exit0"
    /\ Len(X.index) = 3
    /\ \E p \in DOMAIN dirs :
          IsL3SMT(p[1]) /\ ~dirs[p].completed /\ dirs[p].nrows > 0

\* C5: every row of the written output carries in column Y the label of
\* the pivot cell of the pair whose matrix file the row came from.
C5_RowsCarryOwnLabel ==
    pc = "exit0" =>
        /\ Len(outfile.header) > 0
        /\ outfile.header[Len(outfile.header)] = "Y"
        /\ \A i \in 1..Len(outfile.rows) :
              /\ outfile.rows[i].features.src \in DOMAIN dirs
              /\ outfile.rows[i].Y =
                    classify(CellValue(outfile.rows[i].features.src))

\* C5 witness: the output holds two rows of one pair and, after them, a
\* row of another pair with the other label.
C5_Witness ==
    /\ pc = "exit0"
    /\ \E i, j, k \in 1..Len(outfile.rows) :
          /\ i < j /\ j < k
          /\ outfile.rows[i].features.src = outfile.rows[j].features.src
          /\ outfile.rows[k].features.src # outfile.rows[i].features.src
          /\ outfile.rows[k].Y # outfile.rows[i].Y

\* C6: the pair directories the loop body has run for are the cells of the
\* selected tables in row-major order, each once, up to the position of the
\* loops; when the loops end they are all of them, the diagonal included;
\* the rows of the combined matrix are the files of the included pairs in
\* that order.
C6_RowMajorOnce ==
    /\ IsPrefix(visited, VisitOrder)
    /\ (pc \in {"write", "exit0"} => visited = VisitOrder)
    /\ X.data = RowsOf(visited, Len(visited))

\* C6 witness: a table of two rows and two columns was walked to the end,
\* all four pairs contributed rows, among them a pair of a workload with
\* itself.
C6_Witness ==
    /\ pc = "exit0"
    /\ Len(visited) = 4
    /\ \A k \in 1..4 : IsIncluded(visited[k]) /\ dirs[visited[k]].nrows > 0
    /\ \E i \in 1..Len(X.data) : X.data[i].src[2] = X.data[i].src[4]

\* C7: a second run over the same inputs ends as the first did: the same
\* exit status, the same output file, the same messages.
C7_SecondRunSame ==
    (run = "second" /\ Exited) =>
        /\ pc = first.pc
        /\ outfile = first.outfile
        /\ stdout = first.stdout

\* C7 witness: the second run has written rows over the output of the
\* first run.
C7_Witness ==
    /\ run = "second"
    /\ pc = "exit0"
    /\ writes = 1
    /\ before = first.outfile
    /\ Len(outfile.rows) > 1

\* C8: when no completed pair of a selected configuration lacks its matrix
\* file, the run cannot end with status 1 nor stop before its end; the
\* output file is untouched until the loops have passed every table and X
\* has its column Y, and is then written once.
C8_NormalCompletion ==
    ~HasMissingMatrix =>
        /\ pc # "exit1"
        /\ (pc # "exit0" => ENABLED Next)
        /\ (pc # "exit0" => writes = 0 /\ outfile = before)
        /\ (pc = "write" =>
              /\ visited = VisitOrder
              /\ \E i \in 1..Len(X.columns) : X.columns[i] = "Y")
        /\ (pc = "exit0" =>
              /\ writes = 1
              /\ outfile = to_csv(X)
              /\ \E i \in 1..Len(outfile.header) : outfile.header[i] = "Y")

\* C8 witness: normal completion of a run in which a pair was visited and
\* no pair was included: the file is written once, with no rows.
C8_Witness ==
    /\ pc = "exit0"
    /\ writes = 1
    /\ Len(visited) > 1
    /\ \A k \in 1..Len(visited) : ~IsIncluded(visited[k])
    /\ outfile.exists
    /\ outfile.rows = <<>>

\* C9 (state): nothing in the run comes from a configuration that is not
\* L3-SMT: no visited pair, no row, no message, no abort.
C9_State ==
    /\ \A k \in 1..Len(visited) : IsL3SMT(visited[k][1])
    /\ \A i \in 1..Len(X.data) :
          Len(X.data[i].src) > 0 => IsL3SMT(X.data[i].src[1])
    /\ \A i \in 1..Len(stdout) :
          Len(stdout[i].path) > 0 => IsL3SMT(stdout[i].path[1])
    /\ (pc = "exit1" => t <= Len(pivots) /\ IsL3SMT(table.config))

\* C9 (step): at a table of another configuration the loop only moves on.
C9_Step ==
    (InTable /\ ~IsL3SMT(table.config)) =>
        /\ t' = t + 1
        /\ <<X, Y, stdout, visited, pc, outfile, writes>>' =
           <<X, Y, stdout, visited, pc, outfile, writes>>

\* C9: a configuration not in TO_BUILD has no effect on the run.
C9_UnselectedNoEffect == []C9_State /\ [][C9_Step]_vars

\* C9 witness: normal completion although a completed pair of another
\* configuration lacks its matrix file.
C9_Witness ==
    /\ pc = "exit0"
    /\ \E p \in DOMAIN dirs : ~IsL3SMT(p[1]) /\ MissingMatrix(p)
    /\ Len(X.index) > 0

\* C10 (state): between loop iterations the label series has as many
\* entries as the combined matrix has rows.
C10_State ==
    pc = "loop" =>
        /\ Len(Y.values) = Len(X.index)
        /\ Len(Y.index) = Len(X.index)
        /\ Len(X.data) = Len(X.index)

\* C10 (step): an iteration only appends to the two accumulators, and
\* leaves them as they are at a pair without the marker.
C10_Step ==
    /\ IsPrefix(X.data, X'.data)
    /\ IsPrefix(X.index, X'.index)
    /\ IsPrefix(Y.values, Y'.values)
    /\ IsPrefix(Y.index, Y'.index)
    /\ (InTable /\ IsL3SMT(table.config) /\ ~dirs[path].completed
          => X'.data = X.data /\ Y'.values = Y.values)

\* C10: after every visited pair the label series and the combined matrix
\* have the same length, and both only ever grow at their end.
C10_AccumulatorsAppendOnly == []C10_State /\ [][C10_Step]_vars

\* C10 witness: between two iterations, with rows of two pairs accumulated
\* and an excluded pair behind.
C10_Witness ==
    /\ pc = "loop"
    /\ Len(visited) = 3
    /\ Len(X.index) >= 3
    /\ \E k \in 1..Len(visited) : ~dirs[visited[k]].completed

====
